---- MODULE Spec2Model ----
(***************************************************************************)
(* A model of the cat tool of src/cat/src/main.rs: the argument            *)
(* interpreter (process_args), the copy engine (process_files, copy_to,    *)
(* copy_file_to) and the line-numbering filter (NumberedOut).              *)
(*                                                                         *)
(* Bytes and command-line tokens are sequences of one-character strings.   *)
(* The sink is the pair buf, out: buf holds the bytes the sink accepted    *)
(* and has not yet handed to file descriptor 1, out the bytes it handed    *)
(* over.  Every write to file descriptor 1 may fail; a write to the error  *)
(* stream is taken to succeed.  A source supplies its bytes read by read.  *)
(***************************************************************************)
EXTENDS Integers, Sequences, FiniteSets, TLC

VARIABLES
    args,            \* env::args().skip(1)
    pc,              \* position of the program
    files,           \* Config.0
    numbered,        \* TRUE iff Config.1 is a NumberedOut
    idx,             \* position of `for file in files`
    exit_status,     \* process_files::exit_status
    code,            \* the status the process ended with (-1 while running)
    n,               \* NumberedOut.n
    beginning_line,  \* NumberedOut.beginning_line
    buf,             \* bytes accepted by the sink, not yet on fd 1
    out,             \* bytes delivered to standard output
    err,             \* messages written to the error stream
    stdin_given,     \* history: number of bytes read from standard input
    stdin_eof,       \* TRUE once standard input has ended for good
    chunk,           \* the bytes io::copy read and is writing
    pos,             \* NumberedOut::write: index of `for byte in buf`
    cur_err,         \* the CatError of `result`
    contents,        \* history: the bytes read from the source at each position
    attempts,        \* history: the positions a copy was attempted for
    failed,          \* history: the positions whose result was Err
    opens,           \* history: number of File::open calls
    stdin_reads,     \* history: number of copies started on io::stdin()
    flushes,         \* history: number of flush calls on a sink
    prefixes,        \* history: number of prefixes the inner sink accepted
    fed,             \* history: input bytes the inner sink accepted
    seen,            \* history: bytes NumberedOut::write examined
    start_n          \* history: the value of n when the history starts

vars == <<args, pc, files, numbered, idx, exit_status, code, n,
          beginning_line, buf, out, err, stdin_given, stdin_eof, chunk, pos, cur_err,
          contents, attempts, failed, opens, stdin_reads, flushes, prefixes,
          fed, seen, start_n>>

(***************************************************************************)
(* Bounds                                                                  *)
(***************************************************************************)
MaxArgs == 3        \* longest command line
MaxInput == 3       \* most bytes the sources supply in one run
MaxFed == 4         \* bytes fed to the filter taken on its own
Capacity == 8       \* bytes a buffered writer holds before it writes out

(***************************************************************************)
(* Bytes, tokens, messages                                                 *)
(***************************************************************************)
NL == "\n"
SP == " "
Bytes == {"a", NL}

Dash == <<"-">>
FlagN == <<"-", "n">>
FlagH == <<"-", "h">>
FlagX == <<"-", "x">>
FlagY == <<"-", "y">>
FileF == <<"f">>
Prog == <<"c", "a", "t">>
Tokens == {FlagN, FlagH, FlagX, FlagY, Dash, FileF}

RECURSIVE SeqsUpTo(_, _)
SeqsUpTo(S, k) ==
    IF k = 0 THEN {<<>>}
    ELSE LET shorter == SeqsUpTo(S, k - 1)
         IN  shorter \cup {Append(s, x) : s \in shorter, x \in S}

Take(s, k) == SubSeq(s, 1, k)
Drop(s, k) == SubSeq(s, k + 1, Len(s))

RECURSIVE Flatten(_)
Flatten(ss) == IF ss = <<>> THEN <<>> ELSE Head(ss) \o Flatten(Tail(ss))

NoMessage == [prefix |-> "", head |-> "", arg |-> <<>>, sep |-> "", tail |-> ""]

\* fmt::Display for CatError
CatErrorDisplay(e) ==
    [prefix |-> "", head |-> "", arg |-> e.filename, sep |-> ": ",
     tail |-> e.message]

\* what main's Err(String) return puts on the error stream
MainError(m) == [m EXCEPT !.prefix = "Error: "]

PanicMessage(what) ==
    [prefix |-> "panicked: ", head |-> what, arg |-> <<>>, sep |-> "",
     tail |-> ""]

(***************************************************************************)
(* process_args                                                            *)
(***************************************************************************)
\* line 16 without the length test
is_flag_any_dash(a) == Len(a) >= 1 /\ Head(a) = "-"

is_flag(a) == Len(a) >= 2 /\ Head(a) = "-"

RECURSIVE Filter(_, _)
Filter(s, keep) ==
    IF s = <<>> THEN <<>>
    ELSE IF keep[Head(s)] THEN <<Head(s)>> \o Filter(Tail(s), keep)
         ELSE Filter(Tail(s), keep)

flags_of(a) == Filter(a, [t \in Tokens |-> is_flag(t)])
non_flags_of(a) == Filter(a, [t \in Tokens |-> ~is_flag(t)])

UsageMessage ==
    [prefix |-> "", head |-> "Usage: ", arg |-> Prog, sep |-> "",
     tail |-> " [-n] [file1 [file2 ...]]"]

UnrecognizedMessage(flag) ==
    [prefix |-> "", head |-> "Unrecognized flag ", arg |-> flag, sep |-> "",
     tail |-> ""]

\* the loop with `_ => continue`: an unknown flag is skipped
RECURSIVE scan_flags_skip_unknown(_, _)
scan_flags_skip_unknown(flags, show_line_numbers) ==
    IF flags = <<>>
    THEN [ok |-> TRUE, show_line_numbers |-> show_line_numbers,
          message |-> NoMessage]
    ELSE IF Head(flags) = FlagN
    THEN scan_flags_skip_unknown(Tail(flags), TRUE)
    ELSE IF Head(flags) = FlagH
    THEN [ok |-> FALSE, show_line_numbers |-> show_line_numbers,
          message |-> UsageMessage]
    ELSE scan_flags_skip_unknown(Tail(flags), show_line_numbers)

\* the loop with a "-h" arm that does not return
RECURSIVE scan_flags_help_goes_on(_, _)
scan_flags_help_goes_on(flags, show_line_numbers) ==
    IF flags = <<>>
    THEN [ok |-> TRUE, show_line_numbers |-> show_line_numbers,
          message |-> NoMessage]
    ELSE IF Head(flags) = FlagN
    THEN scan_flags_help_goes_on(Tail(flags), TRUE)
    ELSE IF Head(flags) = FlagH
    THEN scan_flags_help_goes_on(Tail(flags), show_line_numbers)
    ELSE [ok |-> FALSE, show_line_numbers |-> show_line_numbers,
          message |-> UnrecognizedMessage(Head(flags))]

\* the `for flag in flags` loop: the first "-h" or unknown flag returns
RECURSIVE scan_flags(_, _)
scan_flags(flags, show_line_numbers) ==
    IF flags = <<>>
    THEN [ok |-> TRUE, show_line_numbers |-> show_line_numbers,
          message |-> NoMessage]
    ELSE IF Head(flags) = FlagN THEN scan_flags(Tail(flags), TRUE)
    ELSE IF Head(flags) = FlagH
    THEN [ok |-> FALSE, show_line_numbers |-> show_line_numbers,
          message |-> UsageMessage]
    ELSE [ok |-> FALSE, show_line_numbers |-> show_line_numbers,
          message |-> UnrecognizedMessage(Head(flags))]

\* lines 40-44 without the default
default_files_none(non_flags) == non_flags

default_files(non_flags) == IF non_flags = <<>> THEN <<Dash>> ELSE non_flags

process_args(a) ==
    LET r == scan_flags(flags_of(a), FALSE)
    IN  [ok |-> r.ok, message |-> r.message,
         numbered |-> r.show_line_numbers,
         files |-> default_files(non_flags_of(a))]

(***************************************************************************)
(* NumberedOut::print_number                                               *)
(***************************************************************************)
FieldWidth == 6

DigitChar == <<"0", "1", "2", "3", "4", "5", "6", "7", "8", "9">>

RECURSIVE Digits(_)
Digits(k) ==
    IF k < 10 THEN <<DigitChar[k + 1]>>
    ELSE Digits(k \div 10) \o <<DigitChar[(k % 10) + 1]>>

\* "{:w}": right-justified, padded with spaces up to w, never truncated
PadLeft(s, w) ==
    IF Len(s) >= w THEN s ELSE [i \in 1..(w - Len(s)) |-> SP] \o s

\* format!("{:6}", self.n): the space after the field forgotten
FormatNumberNoSpace(k) == PadLeft(Digits(k), FieldWidth)

\* format!("{:6} ", self.n)
FormatNumber(k) == PadLeft(Digits(k), FieldWidth) \o <<SP>>

\* self.n += 1
next_n(k) == k + 1

\* the arms of lines 109-113 swapped
line_ends_swapped(byte) == byte # NL

\* beginning_line left as print_number set it
line_ends_always(byte) == TRUE

\* lines 109-113: beginning_line after a byte was examined
line_ends(byte) == byte = NL

(***************************************************************************)
(* Initial states                                                          *)
(***************************************************************************)
InitCommon ==
    /\ files = <<>>
    /\ numbered = FALSE
    /\ idx = 0
    /\ exit_status = 0
    /\ code = -1
    /\ beginning_line = TRUE
    /\ buf = <<>>
    /\ out = <<>>
    /\ err = <<>>
    /\ stdin_given = 0
    /\ stdin_eof = FALSE
    /\ chunk = <<>>
    /\ pos = 0
    /\ cur_err = [filename |-> <<>>, message |-> ""]
    /\ contents = <<>>
    /\ attempts = <<>>
    /\ failed = {}
    /\ opens = 0
    /\ stdin_reads = 0
    /\ flushes = 0
    /\ prefixes = 0
    /\ fed = <<>>
    /\ seen = <<>>

Init ==
    /\ InitCommon
    /\ args \in SeqsUpTo(Tokens, MaxArgs)
    /\ pc = "start"
    /\ n = 0
    /\ start_n = 0

(***************************************************************************)
(* main and process_args                                                   *)
(***************************************************************************)
ProcessArgsErr ==
    /\ pc = "start"
    /\ ~process_args(args).ok
    /\ err' = Append(err, MainError(process_args(args).message))
    /\ code' = 1
    /\ pc' = "arg_error"
    /\ UNCHANGED <<args, files, numbered, idx, exit_status, n, beginning_line,
                   buf, out, stdin_given, stdin_eof, chunk, pos, cur_err, contents,
                   attempts, failed, opens, stdin_reads, flushes, prefixes,
                   fed, seen, start_n>>

ProcessArgsOk ==
    /\ pc = "start"
    /\ process_args(args).ok
    /\ files' = process_args(args).files
    /\ numbered' = process_args(args).numbered
    /\ idx' = 1
    /\ pc' = "loop"
    /\ UNCHANGED <<args, exit_status, code, n, beginning_line, buf, out, err,
                   stdin_given, stdin_eof, chunk, pos, cur_err, contents, attempts,
                   failed, opens, stdin_reads, flushes, prefixes, fed, seen,
                   start_n>>

(***************************************************************************)
(* process_files: the head of `for file in files`                          *)
(***************************************************************************)
InLoop == pc = "loop" /\ idx <= Len(files)

\* standard input copied for the first "-" only
BeginStdinOnce ==
    /\ InLoop
    /\ files[idx] = Dash
    /\ attempts' = Append(attempts, idx)
    /\ contents' = Append(contents, <<>>)
    /\ IF stdin_reads = 0
       THEN stdin_reads' = 1 /\ pc' = "copy" /\ idx' = idx
       ELSE stdin_reads' = stdin_reads /\ pc' = "loop" /\ idx' = idx + 1
    /\ UNCHANGED <<args, files, numbered, exit_status, code, n,
                   beginning_line, buf, out, err, stdin_given, stdin_eof,
                   chunk, pos, cur_err, failed, opens, flushes, prefixes,
                   fed, seen, start_n>>

\* line 54: copy_file_to("-", &mut io::stdin(), output)
BeginStdin ==
    /\ InLoop
    /\ files[idx] = Dash
    /\ attempts' = Append(attempts, idx)
    /\ stdin_reads' = stdin_reads + 1
    /\ contents' = Append(contents, <<>>)
    /\ pc' = "copy"
    /\ UNCHANGED <<args, files, numbered, idx, exit_status, code, n,
                   beginning_line, buf, out, err, stdin_given, stdin_eof,
                   chunk, pos, cur_err, failed, opens, flushes, prefixes,
                   fed, seen, start_n>>

\* copy_to: File::open(filename) is Ok(file)
OpenOk ==
    /\ InLoop
    /\ files[idx] # Dash
    /\ attempts' = Append(attempts, idx)
    /\ contents' = Append(contents, <<>>)
    /\ opens' = opens + 1
    /\ pc' = "copy"
    /\ UNCHANGED <<args, files, numbered, idx, exit_status, code, n,
                   beginning_line, buf, out, err, stdin_given, stdin_eof,
                   chunk, pos, cur_err, failed, stdin_reads, flushes,
                   prefixes, fed, seen, start_n>>

\* copy_to: File::open(filename) is Err(e)
OpenFail ==
    /\ InLoop
    /\ files[idx] # Dash
    /\ cur_err' = [filename |-> files[idx], message |-> "open failed"]
    /\ contents' = Append(contents, <<>>)
    /\ attempts' = Append(attempts, idx)
    /\ failed' = failed \cup {idx}
    /\ opens' = opens + 1
    /\ pc' = "error"
    /\ UNCHANGED <<args, files, numbered, idx, exit_status, code, n,
                   beginning_line, buf, out, err, stdin_given, stdin_eof,
                   chunk, pos, stdin_reads, flushes, prefixes, fed, seen, start_n>>

(***************************************************************************)
(* copy_file_to: io::copy(input, output) reads a chunk, writes all of it   *)
(* to the sink, and repeats until a read returns no bytes.  The source     *)
(* decides what each read returns: some bytes, no bytes (the end), or an   *)
(* error.  When a read of standard input returns no bytes, the input has   *)
(* either ended for good (a pipe, a file: stdin_eof) and every later read  *)
(* returns no bytes, or it has not (a terminal) and later reads may        *)
(* supply more.                                                            *)
(***************************************************************************)
FromStdin == files[idx] = Dash

\* how many more bytes the source may supply
Room ==
    IF FromStdin /\ stdin_eof THEN 0
    ELSE MaxInput - Len(Flatten(contents))

ReadChunk ==
    /\ pc = "copy"
    /\ \E c \in SeqsUpTo(Bytes, Room) \ {<<>>} :
          /\ chunk' = c
          /\ contents' = [contents EXCEPT ![idx] = @ \o c]
          /\ stdin_given' = IF FromStdin THEN stdin_given + Len(c)
                            ELSE stdin_given
    /\ pos' = 1
    /\ pc' = "write"
    /\ UNCHANGED <<args, files, numbered, idx, exit_status, code, n,
                   beginning_line, buf, out, err, stdin_eof, cur_err,
                   attempts, failed, opens, stdin_reads, flushes, prefixes,
                   fed, seen, start_n>>

\* the read returns Ok(0): io::copy is Ok, the result is Ok(()), `continue`
ReadEof ==
    /\ pc = "copy"
    /\ stdin_eof' \in (IF FromStdin /\ ~stdin_eof THEN BOOLEAN ELSE {stdin_eof})
    /\ idx' = idx + 1
    /\ pc' = "loop"
    /\ UNCHANGED <<args, files, numbered, exit_status, code, n,
                   beginning_line, buf, out, err, stdin_given, chunk, pos,
                   cur_err, contents, attempts, failed, opens, stdin_reads,
                   flushes, prefixes, fed, seen, start_n>>

\* the read returns Err(e): lines 163-166
ReadFail ==
    /\ pc = "copy"
    /\ cur_err' = [filename |-> files[idx], message |-> "read failed"]
    /\ failed' = failed \cup {idx}
    /\ pc' = "error"
    /\ UNCHANGED <<args, files, numbered, idx, exit_status, code, n,
                   beginning_line, buf, out, err, stdin_given, stdin_eof,
                   chunk, pos, contents, attempts, opens, stdin_reads,
                   flushes, prefixes, fed, seen, start_n>>

(***************************************************************************)
(* The sinks of the standard library, as a state [buf, out].               *)
(*   BufWriter: write_all of fewer bytes than the capacity copies them     *)
(*   into the buffer, after writing the buffer out when they do not fit;   *)
(*   flush writes the buffer out; a write-out that fails has handed over   *)
(*   a proper part of the buffer and keeps the rest.                       *)
(*   Stdout is a LineWriter: write_all of bytes holding a newline writes   *)
(*   the buffer and the bytes up to the last newline out, and buffers the  *)
(*   rest as a BufWriter does.                                             *)
(* A flush of an empty buffer does no I/O and cannot fail.                 *)
(***************************************************************************)
Sink == [buf |-> buf, out |-> out]

SetSink(s) == buf' = s.buf /\ out' = s.out

bw_overflows(s, bytes) == Len(s.buf) + Len(bytes) > Capacity

bw_flush(s) == [buf |-> <<>>, out |-> s.out \o s.buf]

bw_write_all(s, bytes) ==
    IF bw_overflows(s, bytes)
    THEN [buf |-> bytes, out |-> s.out \o s.buf]
    ELSE [buf |-> s.buf \o bytes, out |-> s.out]

\* the outcomes of a write-out of the buffer that fails
bw_flush_fails(s) ==
    {[buf |-> Drop(s.buf, k), out |-> s.out \o Take(s.buf, k)] :
        k \in 0..(Len(s.buf) - 1)}

has_newline(bytes) == \E i \in 1..Len(bytes) : bytes[i] = NL

last_newline(bytes) ==
    CHOOSE i \in 1..Len(bytes) :
        /\ bytes[i] = NL
        /\ \A j \in (i + 1)..Len(bytes) : bytes[j] # NL

ends_line(b) == b # <<>> /\ b[Len(b)] = NL

\* LineWriterShim::write_all, without a failure
lw_write_all(s, bytes) ==
    IF has_newline(bytes)
    THEN LET i == last_newline(bytes)
         IN  bw_write_all(bw_flush([s EXCEPT !.buf = @ \o Take(bytes, i)]),
                          Drop(bytes, i))
    ELSE bw_write_all(IF ends_line(s.buf) THEN bw_flush(s) ELSE s, bytes)

\* LineWriterShim::write_all, the outcomes when a write to fd 1 fails
lw_write_all_fails(s, bytes) ==
    IF has_newline(bytes)
    THEN LET lines == Take(bytes, last_newline(bytes))
         IN  IF s.buf = <<>>
             THEN {[buf |-> <<>>, out |-> s.out \o Take(lines, k)] :
                      k \in 0..(Len(lines) - 1)}
             ELSE bw_flush_fails([s EXCEPT !.buf = @ \o lines])
    ELSE IF ends_line(s.buf) \/ bw_overflows(s, bytes)
         THEN bw_flush_fails(s)
         ELSE {}

\* output is io::stdout(): write_all(chunk) succeeds
StdoutWriteOk ==
    /\ pc = "write"
    /\ ~numbered
    /\ SetSink(lw_write_all(Sink, chunk))
    /\ chunk' = <<>>
    /\ pos' = 0
    /\ pc' = "copy"
    /\ UNCHANGED <<args, files, numbered, idx, exit_status, code, n,
                   beginning_line, err, stdin_given, stdin_eof, cur_err, contents,
                   attempts, failed, opens, stdin_reads, flushes, prefixes,
                   fed, seen, start_n>>

\* output is io::stdout(): write_all(chunk) fails
StdoutWriteFail ==
    /\ pc = "write"
    /\ ~numbered
    /\ \E s \in lw_write_all_fails(Sink, chunk) : SetSink(s)
    /\ cur_err' = [filename |-> files[idx], message |-> "write failed"]
    /\ failed' = failed \cup {idx}
    /\ pc' = "error"
    /\ UNCHANGED <<args, files, numbered, idx, exit_status, code, n,
                   beginning_line, err, stdin_given, stdin_eof, chunk, pos, contents,
                   attempts, opens, stdin_reads, flushes, prefixes, fed, seen,
                   start_n>>

(***************************************************************************)
(* NumberedOut::write, one iteration of `for byte in buf`.                 *)
(* print_number's write finds the BufWriter empty (beginning_line holds    *)
(* only when it was just created or just flushed), so the prefix is        *)
(* copied into the buffer and that write does not fail.                    *)
(***************************************************************************)
\* the counter stepped for every byte
n_after_every_byte == next_n(n)

n_after == IF beginning_line THEN next_n(n) ELSE n

prefixes_after == IF beginning_line THEN prefixes + 1 ELSE prefixes

\* lines 106-108: the sink after print_number, when it is called
after_number(s) ==
    IF beginning_line THEN bw_write_all(s, FormatNumber(n_after)) ELSE s

\* lines 106-116, without the flush of lines 117-123
write_byte_no_flush(byte) ==
    /\ n' = n_after
    /\ prefixes' = prefixes_after
    /\ beginning_line' = line_ends(byte)
    /\ fed' = Append(fed, byte)
    /\ seen' = Append(seen, byte)
    /\ SetSink(bw_write_all(after_number(Sink), <<byte>>))
    /\ flushes' = flushes

\* lines 106-123 without a failure
write_byte(byte) ==
    /\ n' = n_after
    /\ prefixes' = prefixes_after
    /\ beginning_line' = line_ends(byte)
    /\ fed' = Append(fed, byte)
    /\ seen' = Append(seen, byte)
    /\ IF byte = NL
       THEN /\ SetSink(bw_flush(bw_write_all(after_number(Sink), <<byte>>)))
            /\ flushes' = flushes + 1
       ELSE /\ SetSink(bw_write_all(after_number(Sink), <<byte>>))
            /\ flushes' = flushes

\* line 115: write_all of the byte fails (the BufWriter had to make room)
write_byte_fails(byte) ==
    /\ bw_overflows(after_number(Sink), <<byte>>)
    /\ n' = n_after
    /\ prefixes' = prefixes_after
    /\ beginning_line' = line_ends(byte)
    /\ fed' = fed
    /\ seen' = Append(seen, byte)
    /\ \E s \in bw_flush_fails(after_number(Sink)) : SetSink(s)
    /\ flushes' = flushes

\* line 122: the flush after a newline fails
write_flush_fails(byte) ==
    /\ byte = NL
    /\ n' = n_after
    /\ prefixes' = prefixes_after
    /\ beginning_line' = line_ends(byte)
    /\ fed' = Append(fed, byte)
    /\ seen' = Append(seen, byte)
    /\ \E s \in bw_flush_fails(bw_write_all(after_number(Sink), <<byte>>)) :
          SetSink(s)
    /\ flushes' = flushes + 1

InWrite == pc = "write" /\ numbered

NumberedWriteByte ==
    /\ InWrite
    /\ write_byte(chunk[pos])
    /\ IF pos = Len(chunk)
       THEN pos' = 0 /\ chunk' = <<>> /\ pc' = "copy"
       ELSE pos' = pos + 1 /\ chunk' = chunk /\ pc' = "write"
    /\ UNCHANGED <<args, files, numbered, idx, exit_status, code, err, stdin_given,
                   stdin_eof, cur_err, contents, attempts, failed, opens,
                   stdin_reads, start_n>>

NumberedWriteFail ==
    /\ InWrite
    /\ write_byte_fails(chunk[pos])
    /\ cur_err' = [filename |-> files[idx], message |-> "write failed"]
    /\ failed' = failed \cup {idx}
    /\ pc' = "error"
    /\ UNCHANGED <<args, files, numbered, idx, exit_status, code, err, stdin_given,
                   stdin_eof, chunk, pos, contents, attempts, opens, stdin_reads,
                   start_n>>

NumberedFlushFail ==
    /\ InWrite
    /\ write_flush_fails(chunk[pos])
    /\ cur_err' = [filename |-> files[idx], message |-> "flush failed"]
    /\ failed' = failed \cup {idx}
    /\ pc' = "error"
    /\ UNCHANGED <<args, files, numbered, idx, exit_status, code, err, stdin_given,
                   stdin_eof, chunk, pos, contents, attempts, opens, stdin_reads,
                   start_n>>

(***************************************************************************)
(* process_files: the Err(e) arm, lines 60-72                              *)
(***************************************************************************)
\* the Err(e) arm without line 67's flush
ErrNoFlush ==
    /\ pc = "error"
    /\ pc' = "report"
    /\ UNCHANGED <<args, files, numbered, idx, exit_status, code, n,
                   beginning_line, buf, out, err, stdin_given, stdin_eof,
                   chunk, pos, cur_err, contents, attempts, failed, opens,
                   stdin_reads, flushes, prefixes, fed, seen, start_n>>

\* line 67: output.flush() is Ok
ErrFlush ==
    /\ pc = "error"
    /\ SetSink(bw_flush(Sink))
    /\ flushes' = flushes + 1
    /\ pc' = "report"
    /\ UNCHANGED <<args, files, numbered, idx, exit_status, code, n,
                   beginning_line, err, stdin_given, stdin_eof, chunk, pos, cur_err,
                   contents, attempts, failed, opens, stdin_reads, prefixes,
                   fed, seen, start_n>>

\* line 67: output.flush() is Err, and unwrap() panics
ErrFlushPanic ==
    /\ pc = "error"
    /\ \E s \in bw_flush_fails(Sink) : SetSink(s)
    /\ flushes' = flushes + 1
    /\ err' = Append(err, PanicMessage("called Result::unwrap() on an Err value"))
    /\ code' = 101
    /\ pc' = "panicked"
    /\ UNCHANGED <<args, files, numbered, idx, exit_status, n, beginning_line,
                   stdin_given, stdin_eof, chunk, pos, cur_err, contents, attempts,
                   failed, opens, stdin_reads, prefixes, fed, seen, start_n>>

\* the Err(e) arm ending with `break`
ErrReportStops ==
    /\ pc = "report"
    /\ err' = Append(err, CatErrorDisplay(cur_err))
    /\ exit_status' = 1
    /\ idx' = Len(files) + 1
    /\ pc' = "loop"
    /\ UNCHANGED <<args, files, numbered, code, n, beginning_line, buf, out,
                   stdin_given, stdin_eof, chunk, pos, cur_err, contents,
                   attempts, failed, opens, stdin_reads, flushes, prefixes,
                   fed, seen, start_n>>

\* the Err(e) arm without `exit_status = 1`
ErrReportKeepsStatus ==
    /\ pc = "report"
    /\ err' = Append(err, CatErrorDisplay(cur_err))
    /\ idx' = idx + 1
    /\ pc' = "loop"
    /\ UNCHANGED <<args, files, numbered, exit_status, code, n,
                   beginning_line, buf, out, stdin_given, stdin_eof, chunk,
                   pos, cur_err, contents, attempts, failed, opens,
                   stdin_reads, flushes, prefixes, fed, seen, start_n>>

\* lines 68-71: eprintln!("{}", e); exit_status = 1; then the next file
ErrReport ==
    /\ pc = "report"
    /\ err' = Append(err, CatErrorDisplay(cur_err))
    /\ exit_status' = 1
    /\ idx' = idx + 1
    /\ pc' = "loop"
    /\ UNCHANGED <<args, files, numbered, code, n, beginning_line, buf, out,
                   stdin_given, stdin_eof, chunk, pos, cur_err, contents, attempts,
                   failed, opens, stdin_reads, flushes, prefixes, fed, seen,
                   start_n>>

(***************************************************************************)
(* process_files: after the loop, lines 75-76                              *)
(***************************************************************************)
AfterLoop == pc = "loop" /\ idx > Len(files)

\* process::exit(exit_status) without line 75's flush
ExitWithoutFlush ==
    /\ AfterLoop
    /\ code' = exit_status
    /\ pc' = "exited"
    /\ UNCHANGED <<args, files, numbered, idx, exit_status, n, beginning_line,
                   buf, out, err, stdin_given, stdin_eof, chunk, pos, cur_err,
                   contents, attempts, failed, opens, stdin_reads, flushes,
                   prefixes, fed, seen, start_n>>

FinalFlushExit ==
    /\ AfterLoop
    /\ SetSink(bw_flush(Sink))
    /\ flushes' = flushes + 1
    /\ code' = exit_status
    /\ pc' = "exited"
    /\ UNCHANGED <<args, files, numbered, idx, exit_status, n, beginning_line,
                   err, stdin_given, stdin_eof, chunk, pos, cur_err, contents, attempts,
                   failed, opens, stdin_reads, prefixes, fed, seen, start_n>>

\* `let _ = output.flush();`: the failure of line 75's flush dropped
FinalFlushIgnored ==
    /\ AfterLoop
    /\ \E s \in bw_flush_fails(Sink) : SetSink(s)
    /\ flushes' = flushes + 1
    /\ code' = exit_status
    /\ pc' = "exited"
    /\ UNCHANGED <<args, files, numbered, idx, exit_status, n,
                   beginning_line, err, stdin_given, stdin_eof, chunk, pos,
                   cur_err, contents, attempts, failed, opens, stdin_reads,
                   prefixes, fed, seen, start_n>>

FinalFlushPanic ==
    /\ AfterLoop
    /\ \E s \in bw_flush_fails(Sink) : SetSink(s)
    /\ flushes' = flushes + 1
    /\ err' = Append(err, PanicMessage("failed to flush output"))
    /\ code' = 101
    /\ pc' = "panicked"
    /\ UNCHANGED <<args, files, numbered, idx, exit_status, n, beginning_line,
                   stdin_given, stdin_eof, chunk, pos, cur_err, contents, attempts,
                   failed, opens, stdin_reads, prefixes, fed, seen, start_n>>

Next ==
    \/ ProcessArgsErr
    \/ ProcessArgsOk
    \/ BeginStdin
    \/ OpenOk
    \/ OpenFail
    \/ ReadChunk
    \/ ReadEof
    \/ ReadFail
    \/ StdoutWriteOk
    \/ StdoutWriteFail
    \/ NumberedWriteByte
    \/ NumberedWriteFail
    \/ NumberedFlushFail
    \/ ErrFlush
    \/ ErrFlushPanic
    \/ ErrReport
    \/ FinalFlushExit
    \/ FinalFlushPanic

Spec == Init /\ [][Next]_vars

(***************************************************************************)
(* The line-numbering filter taken on its own: a NumberedOut at the start  *)
(* of a line, some way into a run (start_n lines written so far), fed one  *)
(* byte at a time.  out and buf hold what it emitted since then.           *)
(***************************************************************************)
StartCounts == {0, 8, 98, 999998}

InitFilter ==
    /\ InitCommon
    /\ args = <<FlagN>>
    /\ pc = "filter"
    /\ n \in StartCounts
    /\ start_n = n

\* NumberedOut::write called with one more byte
FilterWrite ==
    /\ pc = "filter"
    /\ Len(fed) < MaxFed
    /\ \E byte \in Bytes : write_byte(byte)
    /\ UNCHANGED <<args, pc, files, numbered, idx, exit_status, code, err,
                   stdin_given, stdin_eof, chunk, pos, cur_err, contents,
                   attempts, failed, opens, stdin_reads, start_n>>

\* NumberedOut::flush
FilterFlush ==
    /\ pc = "filter"
    /\ buf # <<>>
    /\ SetSink(bw_flush(Sink))
    /\ flushes' = flushes + 1
    /\ UNCHANGED <<args, pc, files, numbered, idx, exit_status, code, n,
                   beginning_line, err, stdin_given, stdin_eof, chunk, pos,
                   cur_err, contents, attempts, failed, opens, stdin_reads,
                   prefixes, fed, seen, start_n>>

NextFilter == FilterWrite \/ FilterFlush

SpecFilter == InitFilter /\ [][NextFilter]_vars


(***************************************************************************)
(* Properties                                                              *)
(***************************************************************************)
\* every byte read from the sources, in file-list order
Input == Flatten(contents)

RECURSIVE CountOf(_, _)
CountOf(s, x) ==
    IF s = <<>> THEN 0
    ELSE (IF Head(s) = x THEN 1 ELSE 0) + CountOf(Tail(s), x)

Exited == pc = "exited"

Ended == pc \in {"exited", "panicked"}

\* C1: with numbering off and no file failing, standard output holds, when
\* process_files exits, exactly the bytes of the files in argument order.
C1_PlainOutputIsConcatenation ==
    (Exited /\ ~numbered /\ failed = {}) => (out = Input /\ buf = <<>>)

C1_Witness ==
    /\ Exited /\ ~numbered /\ failed = {}
    /\ Len(files) >= 2
    /\ contents[1] = <<"a">>
    /\ contents[2] = <<NL, "a">>
    /\ out = <<"a", NL, "a">>

\* C2: with numbering on and no file failing, the number of prefixes emitted
\* over the run is the number of newlines of the whole input, plus one if the
\* input is not empty and does not end with a newline.
ExpectedPrefixes ==
    CountOf(Input, NL)
        + (IF Input # <<>> /\ Input[Len(Input)] # NL THEN 1 ELSE 0)

C2_PrefixCount ==
    (Exited /\ numbered /\ failed = {}) => prefixes = ExpectedPrefixes

\* a line that starts in one file and ends in the next, read in two chunks
C2_Witness ==
    /\ Exited /\ numbered /\ failed = {}
    /\ Len(files) = 2
    /\ contents[1] = <<"a">>
    /\ contents[2] = <<NL, "a">>
    /\ prefixes = 2

\* C3: when process_files exits, the status is 0 exactly if no file produced
\* an error and 1 exactly if some file did; once exit_status is 1 it stays 1.
C3_ExitStatus ==
    /\ [](Exited => /\ (code = 0 <=> failed = {})
                    /\ (code = 1 <=> failed # {}))
    /\ [][exit_status = 1 => exit_status' = 1]_vars

\* a failing file followed by a file that is copied without error
C3_Witness ==
    /\ Exited
    /\ code = 1
    /\ failed = {1}
    /\ Len(files) = 2
    /\ contents[2] # <<>>

\* C4: whatever failures the earlier files produced, a copy is attempted for
\* every file of the list, in list order, before the process ends.
C4_EveryFileAttempted ==
    Ended => attempts = [i \in 1..Len(files) |-> i]

IsFileMessage(m) == m.sep = ": "

\* C5: when the message of a file's error is written to the error stream,
\* the sink holds no undelivered byte, the write of the message delivers
\* none, and no later file has been touched.
C5_FlushBeforeMessage ==
    [][(Len(err') = Len(err) + 1 /\ IsFileMessage(err'[Len(err')]))
          => /\ buf = <<>>
             /\ buf' = <<>>
             /\ out' = out
             /\ Len(attempts) = idx]_vars

\* the message of a missing second file, after a first file whose bytes
\* were still buffered (no newline) when the open failed
C5_Witness ==
    /\ ~numbered
    /\ Len(err) = 1
    /\ IsFileMessage(err[1])
    /\ failed = {2}
    /\ contents[1] = <<"a">>
    /\ out = <<"a">>
    /\ cur_err.message = "open failed"

\* a token the argument interpreter rejects
Unrecognized(t) == Len(t) >= 2 /\ t[1] = "-" /\ t # FlagN /\ t # FlagH

\* a token that is a file name
IsFileToken(t) == Len(t) < 2 \/ t[1] # "-"

\* the message carries the literal text of the token
Mentions(m, t) == m.arg = t

NothingCopied ==
    /\ opens = 0
    /\ stdin_reads = 0
    /\ stdin_given = 0
    /\ attempts = <<>>
    /\ out = <<>>
    /\ buf = <<>>

Parsed == pc # "start" /\ pc # "filter"

\* C6, as stated: every unrecognized flag of the command line is mentioned
\* by an error, whatever comes before it, and no file is copied.
C6_EveryUnknownFlagMentioned ==
    Parsed =>
        \A i \in 1..Len(args) :
            Unrecognized(args[i]) =>
                /\ \E j \in 1..Len(err) : Mentions(err[j], args[i])
                /\ NothingCopied

\* the first flag-like token other than "-n"
Deciding(a) ==
    CHOOSE i \in 1..Len(a) :
        /\ ~IsFileToken(a[i]) /\ a[i] # FlagN
        /\ \A j \in 1..(i - 1) : IsFileToken(a[j]) \/ a[j] = FlagN

\* C6, amended: a command line with an unrecognized flag produces one error
\* and copies nothing; the error mentions the unrecognized flag that comes
\* before every "-h" and every other unrecognized flag, and it is the usage
\* message, mentioning no flag, when a "-h" comes first.
C6_FirstUnknownFlagMentioned ==
    (Parsed /\ \E i \in 1..Len(args) : Unrecognized(args[i])) =>
        /\ pc = "arg_error"
        /\ Len(err) = 1
        /\ NothingCopied
        /\ LET d == Deciding(args)
           IN  IF args[d] = FlagH
               THEN /\ err[1].head = "Usage: "
                    /\ \A i \in 1..Len(args) :
                          Unrecognized(args[i]) => ~Mentions(err[1], args[i])
               ELSE /\ err[1].head = "Unrecognized flag "
                    /\ Mentions(err[1], args[d])

\* "f -n -x": the flag is last, after a file name and "-n"
C6_Witness ==
    /\ pc = "arg_error"
    /\ args = <<FileF, FlagN, FlagX>>
    /\ Mentions(err[1], FlagX)

\* C7: a command line with "-h" or an unrecognized flag ends before any
\* copying: one error message, no file opened, standard input not read,
\* nothing written to standard output, no flush, a non-zero status.
C7_ArgumentErrorIsFatal ==
    (Parsed /\ \E i \in 1..Len(args) :
                  args[i] = FlagH \/ Unrecognized(args[i])) =>
        /\ pc = "arg_error"
        /\ Len(err) = 1
        /\ NothingCopied
        /\ flushes = 0
        /\ code # 0 /\ code # -1

\* "- f -h": a "-h" after standard input and a file were named
C7_Witness ==
    /\ pc = "arg_error"
    /\ args = <<Dash, FileF, FlagH>>
    /\ err[1].head = "Usage: "
    /\ code = 1

\* C8: a command line that is empty or made only of "-n" gives the file list
\* <<"-">> and the configuration that the same command line followed by "-"
\* gives; standard input is copied once and no file is opened.
C8_DefaultIsStdin ==
    (Parsed /\ \A i \in 1..Len(args) : args[i] = FlagN) =>
        /\ pc # "arg_error"
        /\ files = <<Dash>>
        /\ files = process_args(Append(args, Dash)).files
        /\ numbered = process_args(Append(args, Dash)).numbered
        /\ opens = 0
        /\ stdin_reads <= 1
        /\ Ended => stdin_reads = 1

C8_Witness ==
    /\ Exited
    /\ args = <<FlagN>>
    /\ stdin_reads = 1
    /\ contents = <<<<"a", NL>>>>

\* C9: when every flag-like token is "-n", the file list is the subsequence
\* of the tokens that are not flag-like, in their order (when there is one),
\* numbering is on exactly if "-n" occurs somewhere, and then the output
\* starts with the number 1, also for a file named before "-n".
C9_PartitionIgnoresPosition ==
    (Parsed /\ \A i \in 1..Len(args) : IsFileToken(args[i]) \/ args[i] = FlagN)
    =>  /\ pc # "arg_error"
        /\ SelectSeq(args, IsFileToken) # <<>>
              => files = SelectSeq(args, IsFileToken)
        /\ numbered <=> \E i \in 1..Len(args) : args[i] = FlagN
        /\ (numbered /\ out \o buf # <<>>)
              => Take(out \o buf, 7) = <<SP, SP, SP, SP, SP, "1", SP>>

\* "f -n -": the file named before "-n" is numbered
C9_Witness ==
    /\ args = <<FileF, FlagN, Dash>>
    /\ files = <<FileF, Dash>>
    /\ numbered
    /\ idx = 1
    /\ out = <<SP, SP, SP, SP, SP, "1", SP, "a", NL>>

(***************************************************************************)
(* The numbered text, line by line                                         *)
(***************************************************************************)
FirstNewline(s) ==
    CHOOSE i \in 1..Len(s) : s[i] = NL /\ \A j \in 1..(i - 1) : s[j] # NL

\* the lines of s, each with its newline if it has one
RECURSIVE SplitLines(_)
SplitLines(s) ==
    IF s = <<>> THEN <<>>
    ELSE IF has_newline(s)
    THEN <<Take(s, FirstNewline(s))>> \o SplitLines(Drop(s, FirstNewline(s)))
    ELSE <<s>>

\* d right-justified in w characters
RightJustified(d, w) ==
    [k \in 1..w |-> IF k <= w - Len(d) THEN SP ELSE d[k - (w - Len(d))]]

\* the width of the field of line i: 6, or more for a number that is longer
WidthOf(i) == IF Len(Digits(i)) > 6 THEN Len(Digits(i)) ELSE 6

PrefixOf(i) == RightJustified(Digits(i), WidthOf(i)) \o <<SP>>

\* what the filter emitted since the history started
Emitted == out \o buf

FedLines == SplitLines(fed)

\* each line of the input behind the prefix of its number
PrefixedLines ==
    Emitted = Flatten([j \in 1..Len(FedLines) |->
                          PrefixOf(start_n + j) \o FedLines[j]])

\* the output is the input plus 7 bytes for each line
SevenBytesPerLine == Len(Emitted) = Len(fed) + 7 * Len(FedLines)

\* C10, as stated: the output is the input with the number of each line in
\* front of it, and every prefix is exactly 7 bytes.
C10_EveryPrefixSevenBytes ==
    (pc = "filter") => (PrefixedLines /\ SevenBytesPerLine)

\* C10, amended: the output is the input with, in front of line i, the
\* number i right-justified in 6 characters, or in as many as it has digits
\* from line 1000000 on, and one space; every prefix is 7 bytes up to line
\* 999999; deleting the prefixes gives back the input.
C10_PrefixedLines ==
    (pc = "filter") =>
        /\ PrefixedLines
        /\ Flatten(FedLines) = fed
        /\ n <= 999999 => SevenBytesPerLine

\* lines 999999 and 1000000
C10_Witness ==
    /\ pc = "filter"
    /\ start_n = 999998
    /\ fed = <<"a", NL, "a">>
    /\ n = 1000000

(***************************************************************************)
(* The end of the run, the messages, the filter's state                    *)
(***************************************************************************)
Last(s) == s[Len(s)]

\* C11: a process that ends with status 0 or 1 has flushed the sink after
\* the last file: no accepted byte is left in the buffer; a final flush
\* that fails ends the process with another status.
C11_FinalFlush ==
    /\ [](code \in {0, 1} => buf = <<>>)
    /\ [](Exited => flushes >= 1)
    /\ [][(AfterLoop /\ buf' # <<>>) => (pc' = "panicked" /\ code' = 101)]_vars

\* -n, one line without a newline: its bytes wait in the BufWriter until
\* the final flush
C11_Witness ==
    /\ Exited
    /\ numbered
    /\ code = 0
    /\ fed = <<"a">>
    /\ out = <<SP, SP, SP, SP, SP, "1", SP, "a">>
    /\ buf = <<>>

FileMessages == SelectSeq(err, IsFileMessage)

\* the k-th failed file of the list
KthFailed(k) ==
    CHOOSE i \in failed : Cardinality({j \in failed : j < i}) = k - 1

\* C12: once a failed file has been handled, the error stream holds one
\* message per failed file, in list order, made of the argument, ": " and
\* the description of the failure.
C12_OneMessagePerFailure ==
    (pc \in {"loop", "exited", "panicked"}) =>
        /\ Len(FileMessages) = Cardinality(failed)
        /\ \A k \in 1..Len(FileMessages) :
              /\ FileMessages[k].arg = files[KthFailed(k)]
              /\ FileMessages[k].sep = ": "
              /\ FileMessages[k].tail # ""

\* C13: n is the number of prefixes emitted; it grows by one with each
\* prefix and only then, a prefix is emitted exactly when the filter examines
\* the first byte of a line (the first byte of all, or the byte after a
\* newline), and the prefix goes to the sink together with that byte, so
\* that no prefix is the last thing emitted.
C13_CounterCountsPrefixes ==
    /\ [](n = start_n + prefixes)
    /\ [][n' = n \/ n' = n + 1]_vars
    /\ [][n' = n + 1 <=> ((numbered \/ pc = "filter")
                             /\ Len(seen') = Len(seen) + 1
                             /\ (seen = <<>> \/ Last(seen) = NL))]_vars
    /\ [][n' = n + 1 =>
             /\ fed' = Append(fed, Last(seen'))
             /\ Emitted' = Emitted \o PrefixOf(n') \o <<Last(seen')>>]_vars
    /\ [](Emitted # <<>> => Last(Emitted) \in Bytes)

\* "a", newline, newline: two lines, the second one empty
C13_Witness ==
    /\ Exited
    /\ numbered
    /\ fed = <<"a", NL, NL>>
    /\ n = 2
    /\ prefixes = 2

\* C14: beginning_line holds exactly when no byte has been examined yet or
\* the last byte examined was a newline.
C14_BeginningLine ==
    beginning_line <=> (seen = <<>> \/ Last(seen) = NL)

\* in the middle of a chunk, after the first byte of line 1
C14_Witness ==
    /\ numbered
    /\ pc = "write"
    /\ pos = 2
    /\ seen = <<"a">>
    /\ n = 1
    /\ ~beginning_line

\* C15: a write of a newline that returns Ok has flushed the sink: the line,
\* with its prefix, has been delivered and the buffer is empty.
C15_NewlineFlushes ==
    /\ [][(numbered /\ Len(seen') = Len(seen) + 1 /\ Last(seen') = NL
              /\ pc' # "error")
            => /\ buf' = <<>>
               /\ out' = Emitted \o (IF beginning_line THEN PrefixOf(n')
                                     ELSE <<>>) \o <<NL>>
               /\ flushes' = flushes + 1]_vars
    /\ []((numbered /\ seen # <<>> /\ Last(seen) = NL
              /\ pc \in {"write", "copy"}) => buf = <<>>)

\* an empty first line delivered while the rest of its chunk is waiting
C15_Witness ==
    /\ numbered
    /\ pc = "write"
    /\ pos = 2
    /\ chunk = <<NL, "a">>
    /\ out = <<SP, SP, SP, SP, SP, "1", SP, NL>>
    /\ buf = <<>>

OnlyOpenFailures ==
    \A j \in 1..Len(FileMessages) : FileMessages[j].tail = "open failed"

\* C16: when the only failures of a run are files that cannot be opened,
\* every file of the list is attempted in order, the output is what the
\* run without the missing files gives (the bytes of the other files, with
\* line prefixes under -n), each missing file has its message, and the
\* status is 1 if some file was missing.
C16_OpenFailureSkipsFile ==
    (Exited /\ OnlyOpenFailures) =>
        /\ attempts = [i \in 1..Len(files) |-> i]
        /\ \A i \in failed : contents[i] = <<>>
        /\ buf = <<>>
        /\ ~numbered => out = Input
        /\ numbered => (fed = Input /\ PrefixedLines)
        /\ Len(FileMessages) = Cardinality(failed)
        /\ failed # {} => code = 1

\* a missing file between two files that are copied
C16_Witness ==
    /\ Exited
    /\ ~numbered
    /\ Len(files) = 3
    /\ failed = {2}
    /\ OnlyOpenFailures
    /\ contents[1] = <<"a">>
    /\ contents[3] = <<NL>>
    /\ out = <<"a", NL>>

DashPositions == {i \in 1..Len(files) : files[i] = Dash}

\* C17, as stated: once an occurrence of "-" has been copied to the end of
\* standard input, a later occurrence contributes no bytes.
C17_LaterDashEmpty ==
    \A j \in DashPositions :
        (j <= Len(contents)
            /\ \E i \in DashPositions : i < j /\ i \notin failed)
        => contents[j] = <<>>

\* C17, amended: each occurrence of "-" is a copy of standard input of its
\* own; once standard input has ended for good, it stays ended, supplies no
\* further byte, and a later occurrence adds nothing to the output and,
\* unless its read fails, reports no error and leaves the status alone.
C17_EndedStdinStaysEmpty ==
    /\ [](Exited => /\ stdin_reads = Cardinality(DashPositions)
                    /\ \A j \in DashPositions :
                          \E k \in 1..Len(attempts) : attempts[k] = j)
    /\ [][stdin_eof => (stdin_eof' /\ stdin_given' = stdin_given)]_vars
    /\ [][(stdin_eof /\ pc = "copy" /\ FromStdin)
            => /\ contents' = contents
               /\ out' = out /\ buf' = buf
               /\ err' = err /\ exit_status' = exit_status
               /\ \/ pc' = "loop"
                  \/ pc' = "error" /\ cur_err'.message = "read failed"]_vars

\* "- -" on a pipe: the first occurrence takes the input, the second none
C17_Witness ==
    /\ Exited
    /\ files = <<Dash, Dash>>
    /\ stdin_eof
    /\ stdin_reads = 2
    /\ contents = <<<<"a", NL>>, <<>>>>
    /\ out = <<"a", NL>>
    /\ code = 0

\* C18: handling an error and going to the next file leave n and
\* beginning_line alone, so a number is emitted only where the output so
\* far is empty or ends a line, and a byte written there gets a number.
C18_NumberingAcrossFiles ==
    /\ [][(pc \in {"loop", "copy", "error", "report"})
            => (n' = n /\ beginning_line' = beginning_line)]_vars
    /\ [][(numbered /\ prefixes' = prefixes + 1)
            => (Emitted = <<>> \/ Last(Emitted) = NL)]_vars
    /\ [][(numbered /\ Len(fed') = Len(fed) + 1
              /\ (Emitted = <<>> \/ Last(Emitted) = NL))
            => prefixes' = prefixes + 1]_vars

TypeOK ==
    /\ pc \in {"start", "arg_error", "loop", "copy", "write", "error",
               "report", "exited", "panicked", "filter"}
    /\ exit_status \in {0, 1}
    /\ code \in {-1, 0, 1, 101}
    /\ numbered \in BOOLEAN
    /\ beginning_line \in BOOLEAN
    /\ n \in Nat
====
